---- MODULE Spec2Model ----
(***************************************************************************)
(* A model of the e-mail summary agent.                                    *)
(*                                                                         *)
(*   Spec      service.py: the polling loop of main() and the per-thread   *)
(*             pipeline process_thread() over the Mail table (models.py).  *)
(*   SpecFault service.py with an except block whose own commit may fail.  *)
(*   SpecPipe  orchestrator.py: receiver -> in_q -> workers -> out_q ->    *)
(*             sender, with bounded blocking queues.                       *)
(*   SpecPipeFair  SpecPipe with the fairness of the thread scheduler.     *)
(*   SpecPipeFault SpecPipe with a fetch that may raise.                    *)
(*   SpecContacts  contact_manager.py: upsert_contact over the contacts     *)
(*             table, one call after another.                              *)
(*   SpecContactsPar  SpecContacts with calls that overlap.                 *)
(*   SpecSummarize summarizer.py: one call of summarize.                    *)
(*   SpecClassify  classifier.py: one call of classify.                     *)
(*   SpecRetry     summarizer.py: one request to the remote model, attempt  *)
(*             by attempt.                                                  *)
(*   SpecReplies   utils.py: one call of compute_response_times.            *)
(*   SpecSignature utils.py: one call of extract_signature_block.           *)
(*   SpecParse     parser.py and its callers: one call of parse_email, one  *)
(*             run of steps 3-8 of process_thread and one of the try block  *)
(*             of the orchestrator's worker.                                *)
(***************************************************************************)
EXTENDS Integers, Sequences, FiniteSets, Bags, TLC

\* ------------------------------------------------------------------ bounds
MaxThreads == 1      \* thread identifiers the provider can offer: 1..MaxThreads
MaxCalls   == 2      \* process_thread invocations in flight at one time
MaxMsgs    == 2      \* messages of one RawThread
MaxDirect  == 1      \* process_thread calls made from outside this run of main()
MaxSubmit  == 2      \* cap of the per-identifier submission counter
MaxWorkers == 2      \* WORKER_COUNT is set to one of 1..MaxWorkers
MaxFetch   == 3      \* threads one fetch_emails call yields: 0..MaxFetch
MaxUpserts == 3      \* upsert_contact calls made in one behaviour
MaxBodies  == 3      \* messages passed to summarize: 0..MaxBodies
MaxText    == 3      \* characters of the text passed to classify: 0..MaxText
MaxReplyMsgs == 4    \* messages passed to compute_response_times
MaxTime    == 1      \* instants a Date header can name: 0..MaxTime
MaxLines   == 6      \* lines of the body passed to extract_signature_block
MaxRaw     == 2      \* messages written in one raw input of parse_email

\* ------------------------------------------------------- program constants
DefaultWorkers == 4  \* WORKER_COUNT as the module is loaded
MAX_TOKENS == 800
TOKEN_CHAR_RATIO == 4
MAX_CHUNK_CHARS == MAX_TOKENS * TOKEN_CHAR_RATIO
TruncationMarkLen == 13   \* len("\n...[truncated]"), the dots one character

VARIABLES
    \* ---- service.py / models.py
    mail,           \* the Mail table, by message_id
    seen_threads,   \* main(): the in-memory ledger
    submitted,      \* per identifier: how many times main() called pool.submit
    direct,         \* the number of calls made from outside main() so far
    calls,          \* the process_thread invocations in flight (a bag)
    last            \* the last thing logged: a decision of main()'s for-loop
                    \* body, or the return of a process_thread call

VARIABLES
    \* ---- orchestrator.py
    WORKER_COUNT,   \* the module global
    nthreads,       \* how many threads fetch_emails yields in this run
    in_q,           \* work queue: thread numbers, 0 = None (the sentinel)
    out_q,          \* result queue: thread numbers, 0 = None
    rcv,            \* receiver: [pc, i = next thread, k = sentinels put]
    wk,             \* worker -> [pc, item]
    snd,            \* sender: [pc, done_signals]
    fate            \* thread number -> what has happened to it

VARIABLES
    \* ---- contact_manager.py
    contacts,       \* the contacts table, by stored email
    ups,            \* the upsert_contact calls in flight (a bag)
    ulast,          \* stored email -> the last upsert of it that left its
                    \* session block, by return or by IntegrityError
    utotal          \* the number of upsert_contact calls made so far

VARIABLES
    \* ---- summarizer.py, classifier.py
    sin,            \* summarize: the messages passed and the remote's reply size
    sout,           \* summarize: <<>> until the call is over, then its outcome
    cin,            \* classify: the text passed and the remote's reply
    cout,           \* classify: <<>> until the call is over, then its outcome
    api             \* one request of summarizer.py to the remote model: who
                    \* makes it, what the remote answers to each attempt,
                    \* the attempts and the waits so far

VARIABLES
    \* ---- utils.py
    rin,            \* compute_response_times: the messages passed and SELF_EMAIL
    rout,           \* compute_response_times: <<>> until it has returned
    bin,            \* extract_signature_block: the lines of the body passed
    bout            \* extract_signature_block: <<>> until it has returned

VARIABLES
    \* ---- parser.py and its callers
    pin,            \* parse_email: the raw input, the messages written in it
    pout,           \* parse_email: <<>> until it has returned
    tin,            \* the messages of the thread given to process_thread or
                    \* to the worker
    tout,           \* process_thread: <<>> until steps 3-8 are over
    wout            \* worker: <<>> until its try block is over

svars == <<mail, seen_threads, submitted, direct, calls, last>>
pvars == <<WORKER_COUNT, nthreads, in_q, out_q, rcv, wk, snd, fate>>
cvars == <<contacts, ups, ulast, utotal>>
tvars == <<sin, sout, cin, cout, api>>
uvars == <<rin, rout, bin, bout, pin, pout, tin, tout, wout>>
vars  == <<svars, pvars, cvars, tvars, uvars>>

\* What an action of one component leaves alone.
outsideService  == <<pvars, cvars, tvars, uvars>>
outsidePipe     == <<svars, cvars, tvars, uvars>>
outsideContacts == <<svars, pvars, tvars, uvars>>
outsideText     == <<svars, pvars, cvars, uvars>>
outsideUtils    == <<svars, pvars, cvars, tvars>>

Threads     == 1..MaxThreads
DateClasses == {"unparseable", "before", "at", "after"}

\* The statements of process_thread's try block that can raise once the row
\* exists, in program order.
Steps == <<"parse", "skip", "fields", "summarize", "classify",
           "reply_times", "upsert", "complete">>
\* The descriptions str(e) of the exceptions a step can raise.
Errors == {"timeout", "bad input"}

\* ------------------------------------------------------------ Mail table
\* mail[t] holds the rows whose message_id is t, in insertion order; a row is
\* named by (t, position).
\* summary and category: whether the column has been written.
NewRow(st, why) ==
    [status |-> st, failure_reason |-> why, summary |-> FALSE,
     category |-> FALSE]

\* session.query(Mail).filter_by(message_id=raw_thread.id).first()
RecordExists(t) == Len(mail[t]) > 0

\* The unique constraint on Mail.message_id: the INSERT of a second row with
\* the same identifier raises IntegrityError at commit.
CanInsertNoUnique(t) == TRUE
CanInsert(t) == Len(mail[t]) = 0

\* ------------------------------------------------------------ main()
AlreadySeenNever(t) == FALSE
AlreadySeen(t) == t \in seen_threads

MarkSeenForgets(t) == seen_threads
MarkSeen(t) == seen_threads \cup {t}

\* dt_utc < start_dt is the only date test: a thread at the cutoff is kept.
BeforeCutoff(d) == d = "before"
\* raw.messages[-1] (IndexError) and parsedate_to_datetime share one except.
Unparseable(d, empty) == empty \/ d = "unparseable"

\* A call: the thread it was given (empty: the thread has no message), where
\* it is, the row it created (0: none), how its try/except part ended and the
\* step that raised.
NewCall(t, empty) ==
    [tid |-> t, empty |-> empty, pc |-> "check", rec |-> 0,
     outcome |-> "none", raised |-> "none"]

\* raw.messages[-1].date as main() meets it: an empty thread has none.
LastDate(d, empty) == IF empty THEN "none" ELSE d

\* The two kinds of log entry.
Polled(t, d, v) == [kind |-> "poll", tid |-> t, date |-> d, verdict |-> v]
Returned(c, n, attempted, ackErrs, escaped) ==
    [kind |-> "return", tid |-> c.tid, rec |-> c.rec, outcome |-> c.outcome,
     raised |-> c.raised, n |-> n, attempted |-> attempted,
     ackErrs |-> ackErrs, escaped |-> escaped]

Running == BagToSet(calls)
Add(new) == calls (+) SetToBag({new})
Remove(old) == calls (-) SetToBag({old})
Replace(old, new) == (calls (-) SetToBag({old})) (+) SetToBag({new})

\* One iteration of `for raw in fetch_threads(MAX_THREADS)`: the provider
\* offers thread t whose last message has date class d.
Poll(t, d, empty) ==
    IF AlreadySeen(t)
    THEN \* `continue` before the date is looked at
         /\ last' = Polled(t, "unread", "dup")
         /\ UNCHANGED <<mail, seen_threads, submitted, direct, calls, outsideService>>
    ELSE /\ seen_threads' = MarkSeen(t)
         /\ IF Unparseable(d, empty)
            THEN /\ last' = Polled(t, LastDate(d, empty), "baddate")
                 /\ UNCHANGED <<mail, submitted, direct, calls, outsideService>>
            ELSE IF BeforeCutoff(d)
            THEN /\ last' = Polled(t, LastDate(d, empty), "old")
                 /\ UNCHANGED <<mail, submitted, direct, calls, outsideService>>
            ELSE /\ submitted[t] < MaxSubmit
                 /\ BagCardinality(calls) < MaxCalls
                 /\ calls' = Add(NewCall(t, empty))
                 /\ submitted' = [submitted EXCEPT ![t] = @ + 1]
                 /\ last' = Polled(t, LastDate(d, empty), "submitted")
                 /\ UNCHANGED <<mail, direct, outsideService>>

\* process_thread called by someone other than this run of main(): a manual
\* resubmission, or a run started after a restart.
DirectCall(t, empty) ==
    /\ direct < MaxDirect
    /\ BagCardinality(calls) < MaxCalls
    /\ calls' = Add(NewCall(t, empty))
    /\ direct' = direct + 1
    /\ UNCHANGED <<mail, seen_threads, submitted, last, outsideService>>

\* ------------------------------------------------------ process_thread
\* Step 1: the existence check and its early return.
ShortCircuitNever(t) == FALSE
ShortCircuit(t) == RecordExists(t)

Check(c) ==
    /\ c.pc = "check"
    /\ IF ShortCircuit(c.tid)
       THEN calls' = Replace(c, [c EXCEPT !.pc = "finally", !.outcome = "skipped"])
       ELSE calls' = Replace(c, [c EXCEPT !.pc = "create"])
    /\ UNCHANGED <<mail, seen_threads, submitted, direct, last, outsideService>>

\* Step 2: raw_thread.messages[-1], Mail(...), session.add, session.commit.
\* With no message the index raises before thread_rec is bound; with a row of
\* the same identifier already stored the commit raises, and the handler's own
\* add + commit of the same object raises again and leaves process_thread.
CreateUpsert(c) ==
    /\ c.pc = "create"
    /\ ~c.empty
    /\ mail' = [mail EXCEPT ![c.tid] =
                   IF @ = <<>> THEN <<NewRow("pending", "none")>>
                   ELSE [@ EXCEPT ![1] = NewRow("pending", "none")]]
    /\ calls' = Replace(c, [c EXCEPT !.pc = "enrich", !.rec = 1])
    /\ UNCHANGED <<seen_threads, submitted, direct, last, outsideService>>

Create(c) ==
    /\ c.pc = "create"
    /\ IF c.empty
       THEN /\ calls' = Replace(c, [c EXCEPT !.pc = "finally",
                                             !.outcome = "norecord"])
            /\ UNCHANGED mail
       ELSE IF CanInsert(c.tid)
       THEN /\ mail' = [mail EXCEPT ![c.tid] = Append(@, NewRow("pending", "none"))]
            /\ calls' = Replace(c, [c EXCEPT !.pc = "enrich",
                                             !.rec = Len(mail[c.tid]) + 1])
       ELSE /\ calls' = Replace(c, [c EXCEPT !.pc = "finally",
                                             !.outcome = "lost"])
            /\ UNCHANGED mail
    /\ UNCHANGED <<seen_threads, submitted, direct, last, outsideService>>

\* What the commit that ends step s writes to the row.
CommitStep(row, s) ==
    IF s = "reply_times" THEN [row EXCEPT !.summary = TRUE, !.category = TRUE]
    ELSE IF s = "complete" THEN [row EXCEPT !.status = "completed"]
    ELSE row

\* The row after steps 1..k of Steps have run and committed.
RECURSIVE RunSteps(_, _)
RunSteps(row, k) ==
    IF k = 0 THEN row ELSE CommitStep(RunSteps(row, k - 1), Steps[k])

\* except Exception as e: rollback, status = "failed", failure_reason = str(e).
HandlerKeepsStatus(row, e) == [row EXCEPT !.failure_reason = e]
HandlerDropsReason(row, e) == [row EXCEPT !.status = "failed"]
Handler(row, e) ==
    [row EXCEPT !.status = "failed", !.failure_reason = e]

\* Steps 3-8 of the try block. k = 0: every step succeeds; k > 0: Steps[k]
\* raises e after the steps before it have committed. The steps touch only
\* the row this call created.
Enrich(c, k, e) ==
    /\ c.pc = "enrich"
    /\ IF k = 0
       THEN /\ mail' = [mail EXCEPT ![c.tid][c.rec] = RunSteps(@, Len(Steps))]
            /\ calls' = Replace(c, [c EXCEPT !.pc = "finally",
                                             !.outcome = "completed"])
       ELSE /\ mail' = [mail EXCEPT
                          ![c.tid][c.rec] = Handler(RunSteps(@, k - 1), e)]
            /\ calls' = Replace(c, [c EXCEPT !.pc = "finally",
                                             !.outcome = "failed",
                                             !.raised = e])
    /\ UNCHANGED <<seen_threads, submitted, direct, last, outsideService>>

\* The same steps when the except block's own session.commit() raises (the
\* store is unreachable, say): Steps[k] raises e, and the write of status and
\* failure_reason is not stored. The exception leaves the except block.
HandlerCommitFails(c, k, e) ==
    /\ c.pc = "enrich"
    /\ k > 0
    /\ mail' = [mail EXCEPT ![c.tid][c.rec] = RunSteps(@, k - 1)]
    /\ calls' = Replace(c, [c EXCEPT !.pc = "finally", !.outcome = "unsaved",
                                     !.raised = e])
    /\ UNCHANGED <<seen_threads, submitted, direct, last, outsideService>>

\* finally: for m in raw_thread.messages: try mark_as_read(m) except: pass
\* fails = the messages whose mark_as_read raises. The result, from message i
\* on: <<messages attempted, calls that raised, an error left the loop>>.
RECURSIVE AckLoopAborts(_, _, _)
AckLoopAborts(i, n, fails) ==
    IF i > n THEN <<0, 0, FALSE>>
    ELSE IF i \in fails THEN <<1, 1, TRUE>>
    ELSE LET rest == AckLoopAborts(i + 1, n, fails)
         IN  <<rest[1] + 1, rest[2], rest[3]>>

RECURSIVE AckLoop(_, _, _)
AckLoop(i, n, fails) ==
    IF i > n THEN <<0, 0, FALSE>>
    ELSE LET rest == AckLoop(i + 1, n, fails)
         IN  <<rest[1] + 1, rest[2] + (IF i \in fails THEN 1 ELSE 0), rest[3]>>

\* The loop is in the finally block: it runs however the try part ended.
AckedOnSuccessOnly(c, n, fails) ==
    IF c.outcome = "completed" THEN AckLoop(1, n, fails) ELSE <<0, 0, FALSE>>
Acked(c, n, fails) == AckLoop(1, n, fails)

\* The finally block and the return: the thread has n messages. An exception
\* that left the except block is re-raised after the loop.
Return(c, n, fails) ==
    LET res == Acked(c, n, fails)
    IN  /\ c.pc = "finally"
        /\ c.empty <=> n = 0
        /\ calls' = Remove(c)
        /\ last' = Returned(c, n, res[1], res[2], c.outcome \in {"lost", "unsaved"} \/ res[3])
        /\ UNCHANGED <<mail, seen_threads, submitted, direct, outsideService>>

\* ------------------------------------------------------ orchestrator.py
None == 0
Workers == 1..WORKER_COUNT

\* queue.Queue(maxsize=WORKER_COUNT * 2): put blocks while the queue is full.
QueueSize == WORKER_COUNT * 2
HasRoomAlways(q) == TRUE
HasRoom(q) == Len(q) < QueueSize

\* receiver: for raw_thread in fetch_emails(...): in_q.put(raw_thread)
ReceiverPut ==
    /\ rcv.pc = "run"
    /\ rcv.i <= nthreads
    /\ HasRoom(in_q)
    /\ in_q' = Append(in_q, rcv.i)
    /\ fate' = [fate EXCEPT ![rcv.i] = "queued"]
    /\ rcv' = [rcv EXCEPT !.i = @ + 1]
    /\ UNCHANGED <<WORKER_COUNT, nthreads, out_q, wk, snd, outsidePipe>>

\* receiver: for _ in range(WORKER_COUNT): in_q.put(None)
SentinelsOneShort == WORKER_COUNT - 1
SentinelsOneMore == WORKER_COUNT + 1
Sentinels == WORKER_COUNT

ReceiverSignal ==
    /\ rcv.pc = "run"
    /\ rcv.i > nthreads
    /\ IF rcv.k < Sentinels
       THEN /\ HasRoom(in_q)
            /\ in_q' = Append(in_q, None)
            /\ rcv' = [rcv EXCEPT !.k = @ + 1]
       ELSE /\ rcv' = [rcv EXCEPT !.pc = "done"]
            /\ UNCHANGED in_q
    /\ UNCHANGED <<WORKER_COUNT, nthreads, out_q, wk, snd, fate, outsidePipe>>

\* receiver: fetch_emails raises, before the first thread or between two:
\* nothing in receiver catches it, so its thread ends there, before the loop
\* that puts the sentinels.
FetchRaises ==
    /\ rcv.pc = "run"
    /\ rcv.k = 0
    /\ rcv' = [rcv EXCEPT !.pc = "raised"]
    /\ UNCHANGED <<WORKER_COUNT, nthreads, in_q, out_q, wk, snd, fate,
                   outsidePipe>>

\* worker: raw_thread = in_q.get(); get blocks while the queue is empty.
WorkerGetLeaves(w) ==
    /\ wk[w].pc = "get"
    /\ in_q # <<>>
    /\ Head(in_q) # None
    /\ wk' = [wk EXCEPT ![w] = [pc |-> "work", item |-> Head(in_q)]]
    /\ fate' = [fate EXCEPT ![Head(in_q)] = "taken"]
    /\ UNCHANGED <<WORKER_COUNT, nthreads, in_q, out_q, rcv, snd, outsidePipe>>
WorkerGet(w) ==
    /\ wk[w].pc = "get"
    /\ in_q # <<>>
    /\ in_q' = Tail(in_q)
    /\ IF Head(in_q) = None
       THEN /\ wk' = [wk EXCEPT ![w] = [pc |-> "signal", item |-> None]]
            /\ UNCHANGED fate
       ELSE /\ wk' = [wk EXCEPT ![w] = [pc |-> "work", item |-> Head(in_q)]]
            /\ fate' = [fate EXCEPT ![Head(in_q)] = "taken"]
    /\ UNCHANGED <<WORKER_COUNT, nthreads, out_q, rcv, snd, outsidePipe>>

\* worker: if raw_thread is None: out_q.put(None); break
WorkerSignal(w) ==
    /\ wk[w].pc = "signal"
    /\ HasRoom(out_q)
    /\ out_q' = Append(out_q, None)
    /\ wk' = [wk EXCEPT ![w].pc = "exit"]
    /\ UNCHANGED <<WORKER_COUNT, nthreads, in_q, rcv, snd, fate, outsidePipe>>

\* worker: except Exception: logging.exception(...), then the next iteration.
AfterRaiseStops == "exit"
AfterRaise == "get"

\* worker: the try block up to the hand-off: it ends with a result to put, or
\* one of its calls raises.
WorkerProcess(w, ok) ==
    /\ wk[w].pc = "work"
    /\ IF ok
       THEN /\ wk' = [wk EXCEPT ![w].pc = "put"]
            /\ UNCHANGED fate
       ELSE /\ wk' = [wk EXCEPT ![w] = [pc |-> AfterRaise, item |-> None]]
            /\ fate' = [fate EXCEPT ![wk[w].item] = "raised"]
    /\ UNCHANGED <<WORKER_COUNT, nthreads, in_q, out_q, rcv, snd, outsidePipe>>

\* worker: out_q.put({...})
WorkerPut(w) ==
    /\ wk[w].pc = "put"
    /\ HasRoom(out_q)
    /\ out_q' = Append(out_q, wk[w].item)
    /\ fate' = [fate EXCEPT ![wk[w].item] = "result"]
    /\ wk' = [wk EXCEPT ![w] = [pc |-> "get", item |-> None]]
    /\ UNCHANGED <<WORKER_COUNT, nthreads, in_q, rcv, snd, outsidePipe>>

\* sender: if done_signals >= WORKER_COUNT: break
SenderStopsAtFirst(d) == d >= 1
SenderStopsOneEarly(d) == d >= WORKER_COUNT - 1
SenderStops(d) == d >= WORKER_COUNT

\* sender: item = out_q.get(), then count a sentinel or print a result.
SenderGet ==
    /\ snd.pc = "run"
    /\ out_q # <<>>
    /\ out_q' = Tail(out_q)
    /\ IF Head(out_q) = None
       THEN /\ snd' = [pc |-> IF SenderStops(snd.done_signals + 1)
                              THEN "done" ELSE "run",
                       done_signals |-> snd.done_signals + 1]
            /\ UNCHANGED fate
       ELSE /\ fate' = [fate EXCEPT ![Head(out_q)] = "rendered"]
            /\ UNCHANGED snd
    /\ UNCHANGED <<WORKER_COUNT, nthreads, in_q, rcv, wk, outsidePipe>>

Receiver == ReceiverPut \/ ReceiverSignal
Worker(w) ==
    \/ WorkerGet(w)
    \/ WorkerSignal(w)
    \/ \E ok \in BOOLEAN : WorkerProcess(w, ok)
    \/ WorkerPut(w)


\* --------------------------------------------------- contact_manager.py
\* The values the callers pass and the replies of the two remote helpers.
NameArgs  == {"", "Ann"}
EmailArgs == {"", "ann@example.com"}
NoSignature ==
    [name |-> "N/A", company |-> "N/A", address |-> "N/A", phone |-> "N/A",
     job_title |-> "N/A"]
SigReplies ==
    {NoSignature,
     [name |-> "A. Lee", company |-> "Acme", address |-> "1 Main St",
      phone |-> "555-0100", job_title |-> "CEO"]}
ImportanceReplies == {"HIGHLY IMPORTANT", "LESS IMPORTANT", "urgent"}

\* classify_importance_with_ai: an answer outside the two labels is the default.
Importance(ans) ==
    IF ans \in {"HIGHLY IMPORTANT", "LESS IMPORTANT"} THEN ans
    ELSE "LESS IMPORTANT"

\* x or y, for strings.
Or(x, y) == IF x # "" THEN x ELSE y

\* upsert_contact: the dict `details`.
Details(name, email, sig, ans) ==
    [name       |-> Or(name, Or(sig.name, "N/A")),
     email      |-> Or(email, "N/A"),
     company    |-> sig.company,
     address    |-> sig.address,
     phone      |-> sig.phone,
     job_title  |-> sig.job_title,
     importance |-> Importance(ans)]
Columns == {"name", "email", "company", "address", "phone", "job_title",
            "importance"}
StoredEmails == {Or(e, "N/A") : e \in EmailArgs}

\* select(Contact).where(Contact.email == details["email"]), .first()
ExistingNever(e) == <<>>
Existing(e) == IF contacts[e] = <<>> THEN <<>> ELSE <<contacts[e][1]>>

\* The unique constraint on Contact.email.
CanInsertContact(e) == contacts[e] = <<>>

\* setattr(existing, k, v) for every column, then the flush: the UPDATE sets
\* the columns whose new value differs from the value that was loaded.
Updated(current, loaded, details) ==
    [k \in Columns |-> IF details[k] # loaded[k] THEN details[k] ELSE current[k]]

UpsertRunning == BagToSet(ups)

\* upsert_contact is entered: the two remote helpers run (either may raise,
\* and then the call is over) and `details` is built.
UpsertCall(name, email, sig, ans, aiOk) ==
    /\ utotal < MaxUpserts
    /\ utotal' = utotal + 1
    /\ IF aiOk
       THEN ups' = ups (+) SetToBag({[details |-> Details(name, email, sig, ans),
                                      pc |-> "select", loaded |-> <<>>]})
       ELSE UNCHANGED ups
    /\ UNCHANGED <<contacts, ulast, outsideContacts>>

\* existing = sess.scalars(stmt).first()
UpsertSelect(u) ==
    /\ u.pc = "select"
    /\ ups' = (ups (-) SetToBag({u}))
                 (+) SetToBag({[u EXCEPT !.pc = "commit",
                                         !.loaded = Existing(u.details.email)]})
    /\ UNCHANGED <<contacts, ulast, utotal, outsideContacts>>

\* if existing: setattr ... else: sess.add(Contact(**details)); sess.commit().
\* The INSERT of an email already stored raises IntegrityError and the call
\* ends with it.
UpsertCommit(u) ==
    LET e == u.details.email
    IN  /\ u.pc = "commit"
        /\ ups' = ups (-) SetToBag({u})
        /\ IF u.loaded # <<>>
           THEN /\ contacts' = [contacts EXCEPT
                                  ![e][1] = Updated(@, u.loaded[1], u.details)]
                /\ ulast' = [ulast EXCEPT ![e] =
                                <<[details |-> u.details,
                                   overwrote |-> contacts[e][1] # u.details,
                                   raised |-> FALSE]>>]
           ELSE /\ ulast' = [ulast EXCEPT ![e] =
                                <<[details |-> u.details, overwrote |-> FALSE,
                                   raised |-> ~CanInsertContact(e)]>>]
                /\ IF CanInsertContact(e)
                   THEN contacts' = [contacts EXCEPT ![e] = Append(@, u.details)]
                   ELSE UNCHANGED contacts
        /\ UNCHANGED <<utotal, outsideContacts>>


\* ------------------------------------------------------- summarizer.py
\* A text is known by where it comes from and by its length: the body of the
\* message at position src, that body cut by _chunk_messages, or the reply of
\* the remote model to a request built from `input`.
Text(kind, src, len, input) ==
    [kind |-> kind, src |-> src, len |-> len, input |-> input]
Body(i, len) == Text("body", i, len, <<>>)
EmptyText == Text("empty", 0, 0, <<>>)
\* body[:MAX_CHUNK_CHARS] + "\n...[truncated]"
Cut(body) == Text("cut", body.src, MAX_CHUNK_CHARS + TruncationMarkLen, <<>>)
\* resp.choices[0].message.content.strip() of the request fn makes from input
Reply(fn, input, rl) == Text(fn, 0, rl, input)

\* A parsed message is a dict; the elements of a chunk are strings.
Dict(body) == [body |-> body]
IsDict(m) == "body" \in DOMAIN m

\* len(body) > MAX_CHUNK_CHARS
TooLong(b) == b.len > MAX_CHUNK_CHARS

RECURSIVE Flatten(_)
Flatten(seqs) == IF seqs = <<>> THEN <<>> ELSE Head(seqs) \o Flatten(Tail(seqs))

\* _chunk_messages, from body i on: chunks closed so far, the open chunk and
\* its size.
RECURSIVE ChunkFrom(_, _, _, _, _)
ChunkFrom(bodies, i, chunks, cur_chunk, cur_size) ==
    IF i > Len(bodies)
    THEN IF cur_chunk # <<>> THEN Append(chunks, cur_chunk) ELSE chunks
    ELSE LET body == IF TooLong(bodies[i]) THEN Cut(bodies[i])
                     ELSE bodies[i]
             segment_len == body.len + 1
             close == cur_chunk # <<>> /\ cur_size + segment_len > MAX_CHUNK_CHARS
         IN  ChunkFrom(bodies, i + 1,
                       IF close THEN Append(chunks, cur_chunk) ELSE chunks,
                       Append(IF close THEN <<>> ELSE cur_chunk, body),
                       (IF close THEN 0 ELSE cur_size) + segment_len)

ChunkMessages(bodies) == ChunkFrom(bodies, 1, <<>>, <<>>, 0)

\* if not messages: return ""
NoMessagesNever(messages) == FALSE
NoMessages(messages) == messages = <<>>

\* One request to the remote model, as summarize logs it.
Request(fn, input) == [fn |-> fn, input |-> input]
\* One activation of summarize: how deep, how many messages it was given, how
\* many its caller was given, and the way it took.
Frame(depth, n, parent, path) ==
    [depth |-> depth, n |-> n, parent |-> parent, path |-> path]
Outcome(raised, result, requests, frames) ==
    [raised |-> raised, result |-> result, requests |-> requests,
     frames |-> frames]

\* bodies = [msg["body"] for msg in messages if msg.get("body")]
HasBody(b) == b.len > 0
Bodies(messages) ==
    SelectSeq([i \in 1..Len(messages) |-> messages[i].body], HasBody)

\* Step 2: a body longer than a chunk is replaced by summarize_message(body).
Processed(bodies, rl) ==
    [i \in 1..Len(bodies) |->
        IF TooLong(bodies[i]) THEN Reply("summarize_message", <<bodies[i]>>, rl)
        ELSE bodies[i]]
PreRequests(bodies) ==
    LET big == SelectSeq(bodies, TooLong)
    IN  [i \in 1..Len(big) |-> Request("summarize_message", <<big[i]>>)]

\* summarize(messages). rl: the length of what the remote model replies.
RECURSIVE Summarize(_, _, _, _)
Summarize(messages, rl, depth, parent) ==
    LET n == Len(messages)
    IN
    IF NoMessages(messages)
    THEN Outcome("none", EmptyText, <<>>, <<Frame(depth, n, parent, "empty")>>)
    ELSE IF \E i \in 1..n : ~IsDict(messages[i])
    THEN \* msg.get on a str
         Outcome("AttributeError", EmptyText, <<>>,
                 <<Frame(depth, n, parent, "raised")>>)
    ELSE
    LET bodies == Bodies(messages)
        processed == Processed(bodies, rl)
        pre == PreRequests(bodies)
        chunks == ChunkMessages(processed)
    IN
    IF Len(chunks) = 1
    THEN Outcome("none", Reply("_call_api", chunks[1], rl),
                 Append(pre, Request("_call_api", chunks[1])),
                 <<Frame(depth, n, parent, "single")>>)
    ELSE
    LET sub == [k \in 1..Len(chunks) |-> Summarize(chunks[k], rl, depth + 1, n)]
        failed == {k \in 1..Len(chunks) : sub[k].raised # "none"}
        first == CHOOSE k \in failed : \A j \in failed : k <= j
        ran == IF failed = {} THEN Len(chunks) ELSE first
        requests == pre \o Flatten([k \in 1..ran |-> sub[k].requests])
        frames == <<Frame(depth, n, parent, "multi")>>
                      \o Flatten([k \in 1..ran |-> sub[k].frames])
        partial_summaries == [k \in 1..Len(chunks) |-> sub[k].result]
    IN
    IF failed # {}
    THEN Outcome(sub[first].raised, EmptyText, requests, frames)
    ELSE Outcome("none", Reply("unify", partial_summaries, rl),
                 Append(requests, Request("unify", partial_summaries)),
                 frames)

\* The lengths of the bodies tried, and of the replies.
BodyLens  == {0, 10, 1600, MAX_CHUNK_CHARS, MAX_CHUNK_CHARS + 1}
ReplyLens == {0, 40, MAX_CHUNK_CHARS + 1}
MessageLists ==
    UNION {[1..n -> {Dict(Text("body", 0, len, <<>>)) : len \in BodyLens}]
               : n \in 0..MaxBodies}
\* The message at position i carries the body of position i.
Numbered(messages) ==
    [i \in 1..Len(messages) |-> Dict(Body(i, messages[i].body.len))]

SummarizeCall ==
    /\ sout = <<>>
    /\ sout' = <<Summarize(sin.messages, sin.rl, 0, 0)>>
    /\ UNCHANGED <<sin, cin, cout, api, outsideText>>


\* ---- the requests to the remote model, attempt by attempt
\* for backoff in (1, 2, 4)
Backoffs == <<1, 2, 4>>
\* How many attempts are made inside that loop: the final request of
\* summarize is a single openai.ChatCompletion.create with no loop around it.
Retries ==
    [_call_api |-> Len(Backoffs), summarize_message |-> Len(Backoffs),
     unify |-> 0]
NoRequest ==
    [fn |-> "none", answers |-> <<>>, attempts |-> 0, waits |-> <<>>,
     pc |-> "idle", error |-> "none"]

\* One openai.ChatCompletion.create: inside the loop RateLimitError is caught
\* and followed by time.sleep(backoff); any other error, and any error of the
\* attempt after the loop, leaves the function.
Attempt ==
    /\ api.pc = "try"
    /\ LET n == api.attempts + 1
           answer == api.answers[n]
           caught == answer = "RateLimitError" /\ n <= Retries[api.fn]
       IN  api' = [api EXCEPT
                     !.attempts = n,
                     !.waits = IF caught THEN Append(@, Backoffs[n]) ELSE @,
                     !.pc = IF answer = "ok" THEN "returned"
                            ELSE IF caught THEN "try" ELSE "raised",
                     !.error = IF answer = "ok" \/ caught THEN @ ELSE answer]
    /\ UNCHANGED <<sin, sout, cin, cout, outsideText>>

\* ------------------------------------------------------- classifier.py
\* A string is the sequence of its characters; a word the remote model may
\* answer counts as one character.
Whitespace == {" ", "\n"}
TextChars == Whitespace \cup {"x"}
Texts == UNION {[1..n -> TextChars] : n \in 0..MaxText}
CATEGORIES ==
    {"Quotation", "Order Management", "Delivery", "Invoice/Tax",
     "Quality Control", "Technical Support", "Others"}
\* resp.choices[0].message.content, for some answers of the remote model.
ModelReplies ==
    {<<"Invoice/Tax">>, <<"\"", "Delivery", "\"">>,
     <<" ", "'", "Others", "'", "\n">>, <<"Spam">>, <<>>}

\* str.strip(chars)
RECURSIVE LStrip(_, _)
LStrip(s, chars) ==
    IF s # <<>> /\ Head(s) \in chars THEN LStrip(Tail(s), chars) ELSE s
RECURSIVE RStrip(_, _)
RStrip(s, chars) ==
    IF s # <<>> /\ s[Len(s)] \in chars
    THEN RStrip(SubSeq(s, 1, Len(s) - 1), chars) ELSE s
Strip(s, chars) == RStrip(LStrip(s, chars), chars)

\* if not text or not text.strip()
IsBlankNoStrip(text) == text = <<>>
IsBlank(text) == text = <<>> \/ Strip(text, Whitespace) = <<>>

\* label = content.strip(); return label.strip('"').strip("'").strip()
Label(content) ==
    Strip(Strip(Strip(Strip(content, Whitespace), {"\""}), {"'"}), Whitespace)

\* classify(text), the remote model answering `content` if it is asked.
Classify(text, content) ==
    IF IsBlank(text) THEN [result |-> <<"Others">>, requests |-> 0]
    ELSE [result |-> Label(content), requests |-> 1]

ClassifyCall ==
    /\ cout = <<>>
    /\ cout' = <<Classify(cin.text, cin.reply)>>
    /\ UNCHANGED <<sin, sout, cin, api, outsideText>>

\* ---------------------------------------------------------------- utils.py
\* A sender is the sequence of the words of the From header, an address
\* being one word; a date is the instant parsedate_to_datetime gives, NoDate
\* where it raises.
NoDate == 0 - 1
Senders ==
    {<<"ann@x.com">>, <<"Bob", "bob@x.com">>, <<"Me", "ME@X.COM">>}
\* SELF_EMAIL = os.getenv("IMAP_USER", "").lower()
SelfEmails == {"", "me@x.com"}
MessageSeqs ==
    UNION {[1..n -> [sender : Senders, date : (0..MaxTime) \cup {NoDate}]]
              : n \in 0..MaxReplyMsgs}

\* str.lower(), word by word
Lower(w) ==
    CASE w = "ME@X.COM" -> "me@x.com"
      [] w = "Me" -> "me"
      [] w = "Bob" -> "bob"
      [] OTHER -> w
\* SELF_EMAIL in sender
Contains(sender, self) == \E i \in DOMAIN sender : Lower(sender[i]) = self
\* if SELF_EMAIL and SELF_EMAIL not in sender
Incoming(self, sender) == self # "" /\ ~Contains(sender, self)

\* last_received is <<>> for None, else <<the dict>>.
ReceivedKeepsFirst(last_received, msg) ==
    IF last_received = <<>>
    THEN <<[from |-> msg.sender, when |-> msg.date]>>
    ELSE last_received
Received(last_received, msg) == <<[from |-> msg.sender, when |-> msg.date]>>
\* last_received = None, after a record is appended
ClearedNever(last_received) == last_received
Cleared(last_received) == <<>>
\* delta = dt - last_received["when"]
DeltaFromZero(dt, when) == dt
Delta(dt, when) == dt - when
ReplyRecord(reply_count, received, dt) ==
    [reply_number  |-> reply_count,
     from          |-> received.from,
     delta_seconds |-> Delta(dt, received.when),
     reply_at      |-> dt]

\* The for-loop of compute_response_times, from message i on.
RECURSIVE ResponseTimesFrom(_, _, _, _, _, _)
ResponseTimesFrom(messages, i, self, last_received, reply_count, recs) ==
    IF i > Len(messages) THEN recs
    ELSE LET msg == messages[i]
         IN  IF msg.date = NoDate
             THEN ResponseTimesFrom(messages, i + 1, self, last_received,
                                    reply_count, recs)
             ELSE IF Incoming(self, msg.sender)
             THEN ResponseTimesFrom(messages, i + 1, self,
                                    Received(last_received, msg),
                                    reply_count, recs)
             ELSE IF last_received # <<>>
             THEN ResponseTimesFrom(
                      messages, i + 1, self, Cleared(last_received),
                      reply_count + 1,
                      Append(recs, ReplyRecord(reply_count + 1,
                                               last_received[1], msg.date)))
             ELSE ResponseTimesFrom(messages, i + 1, self, last_received,
                                    reply_count, recs)

compute_response_times(messages, self) ==
    ResponseTimesFrom(messages, 1, self, <<>>, 0, <<>>)

ResponseTimesCall ==
    /\ rout = <<>>
    /\ rout' = <<compute_response_times(rin.messages, rin.self)>>
    /\ UNCHANGED <<rin, bin, bout, pin, pout, tin, tout, wout, outsideUtils>>

\* A body is the sequence of its lines; a line is known by its place in the
\* body and by what the patterns make of it: "dash" is a line of "--" and
\* whitespace, "closing" one of the words best, cheers, regards, sincerely
\* followed by nothing but commas and whitespace, "mobile" a line that
\* starts with "Sent from my ", "blank" a line of whitespace, "text" any
\* other line.
LineKinds == {"text", "blank", "dash", "closing", "mobile"}
Line(kind, i) == [kind |-> kind, at |-> i]
\* The list `delimiters`, in its order.
delimiters == <<"dash", "closing", "mobile">>
FallbackLines == 5
\* str.strip() of a text of whole lines
StripLines(lines) == Strip(lines, {Line("blank", i) : i \in 1..MaxLines})
Matches(delim, body) == {i \in DOMAIN body : body[i].kind = delim}
\* re.split(delim, body)[-1]
AfterFirst(delim, body) ==
    LET m == CHOOSE i \in Matches(delim, body) :
                 \A j \in Matches(delim, body) : i <= j
    IN  SubSeq(body, m + 1, Len(body))
AfterLast(delim, body) ==
    LET m == CHOOSE i \in Matches(delim, body) :
                 \A j \in Matches(delim, body) : i >= j
    IN  SubSeq(body, m + 1, Len(body))
\* lines = [ln for ln in body.splitlines() if ln.strip()]; lines[-5:]
LastLines(body) ==
    LET lines == SelectSeq(body, LAMBDA ln : ln.kind # "blank")
    IN  SubSeq(lines,
               IF Len(lines) > FallbackLines
               THEN Len(lines) - FallbackLines + 1 ELSE 1,
               Len(lines))
\* The for-loop over delimiters, from pattern d on, then the fallback.
RECURSIVE SignatureFrom(_, _)
SignatureFrom(d, body) ==
    IF d > Len(delimiters) THEN StripLines(LastLines(body))
    ELSE IF Matches(delimiters[d], body) # {}
    THEN StripLines(AfterLast(delimiters[d], body))
    ELSE SignatureFrom(d + 1, body)

extract_signature_block(body) == SignatureFrom(1, body)

SignatureCall ==
    /\ bout = <<>>
    /\ bout' = <<extract_signature_block(bin)>>
    /\ UNCHANGED <<rin, rout, bin, pin, pout, tin, tout, wout, outsideUtils>>

\* --------------------------------------------------------------- parser.py
\* A raw input is the sequence of the messages written in it one after the
\* other: the headers of each (From, Date, Content-Type), then its text.
RawInputs ==
    UNION {[1..n -> [sender : {"", "Alice <alice@example.com>",
                               "Bob <bob@example.com>"},
                     dated  : BOOLEAN,
                     ctype  : {"text/plain", "text/html",
                               "multipart/alternative", "application/pdf"}]]
              : n \in 0..MaxRaw}

\* _get_body of the one Message the parser makes of raw: the places in raw
\* of the messages whose text the body holds. The headers end at the first
\* empty line, so all that follows the first message is text of its body; of
\* a multipart message the body is the first text/plain part.
get_body(raw) ==
    IF raw = <<>> THEN <<>>
    ELSE IF raw[1].ctype \in {"text/plain", "text/html"}
    THEN [i \in 1..Len(raw) |-> i]
    ELSE IF raw[1].ctype = "multipart/alternative" THEN <<1>>
    ELSE <<>>

\* msg["Date"] or "", msg["From"] or "": 0 and "" where the header is missing;
\* the Date header of the message at place i names instant i.
parse_email(raw) ==
    <<[date   |-> IF raw # <<>> /\ raw[1].dated THEN 1 ELSE 0,
       sender |-> IF raw # <<>> THEN raw[1].sender ELSE "",
       body   |-> get_body(raw)]>>

ParseCall ==
    /\ pout = <<>>
    /\ pout' = <<parse_email(pin)>>
    /\ UNCHANGED <<rin, rout, bin, bout, pin, tin, tout, wout, outsideUtils>>

\* --------------------------------- the callers of parse_email
\* A message of a thread: whether it has any text (plain or html), and
\* whether the operator wrote it.
ThreadInputs ==
    UNION {[1..n -> [content : {"empty", "text"}, operator : BOOLEAN]]
              : n \in 1..MaxMsgs}
\* Steps 3-8 of process_thread for a thread with messages. Step 3 is
\* parsed.extend(parse_email(msg.plain or msg.html)) message by message,
\* parse_email being given text with no header. The elements of
\* parsed are the dicts parse_email returns, and a dict has no attribute
\* is_valid: step 4 raises at its first element. With nothing parsed, steps
\* 4-6 run over nothing and step 7, upsert_contact(parsed), is a call with
\* one argument of a function of seven.
ProcessThread(messages) ==
    LET plain(m) ==
            IF m.content = "empty" THEN <<>>
            ELSE <<[sender |-> "", dated |-> FALSE, ctype |-> "text/plain"]>>
        parsed ==
            Flatten([i \in DOMAIN messages |-> parse_email(plain(messages[i]))])
    IN
    IF parsed # <<>>
    THEN [status |-> "failed", failure_reason |-> "AttributeError",
          at |-> "skip", skipped |-> <<>>, summarized |-> <<>>]
    ELSE [status |-> "failed", failure_reason |-> "TypeError",
          at |-> "upsert", skipped |-> <<>>, summarized |-> <<<<>>>>]

ThreadCall ==
    /\ tin # <<>>
    /\ tout = <<>>
    /\ tout' = <<ProcessThread(tin)>>
    /\ UNCHANGED <<rin, rout, bin, bout, pin, pout, tin, wout, outsideUtils>>

\* The try block of the worker: after the parse, compute_response_times(msgs,
\* me) is a call with two arguments of a function of one; the except clause
\* logs the TypeError and nothing is put on out_q.
WorkerBody(raw_thread) ==
    [raised |-> "TypeError", at |-> "reply_times",
     msgs |-> Len(raw_thread), summarized |-> <<>>, result |-> <<>>]

WorkerCall ==
    /\ tin # <<>>
    /\ wout = <<>>
    /\ wout' = <<WorkerBody(tin)>>
    /\ UNCHANGED <<rin, rout, bin, bout, pin, pout, tin, tout, outsideUtils>>

\* ------------------------------------------------------------ Spec
\* service.py runs; serve_multithreaded has not been called.
PipeIdle ==
    /\ WORKER_COUNT = DefaultWorkers
    /\ nthreads = 0
    /\ in_q = <<>>
    /\ out_q = <<>>
    /\ rcv = [pc |-> "idle", i |-> 1, k |-> 0]
    /\ wk = <<>>
    /\ snd = [pc |-> "idle", done_signals |-> 0]
    /\ fate = <<>>

\* No upsert_contact call has been made; the contacts table is empty.
ContactsIdle ==
    /\ contacts = [e \in StoredEmails |-> <<>>]
    /\ ups = EmptyBag
    /\ ulast = [e \in StoredEmails |-> <<>>]
    /\ utotal = 0

\* Neither summarize nor classify has been called.
TextIdle ==
    /\ sin = [messages |-> <<>>, rl |-> 0]
    /\ sout = <<>>
    /\ cin = [text |-> <<>>, reply |-> <<>>]
    /\ cout = <<>>
    /\ api = NoRequest

\* No function of utils.py has been called.
UtilsIdle ==
    /\ rin = [messages |-> <<>>, self |-> ""]
    /\ rout = <<>>
    /\ bin = <<>>
    /\ bout = <<>>

\* parse_email has not been called and no thread is being worked on.
ParseIdle ==
    /\ pin = <<>>
    /\ pout = <<>>
    /\ tin = <<>>
    /\ tout = <<>>
    /\ wout = <<>>

ServiceInit ==
    /\ mail = [t \in Threads |-> <<>>]
    /\ seen_threads = {}
    /\ submitted = [t \in Threads |-> 0]
    /\ direct = 0
    /\ calls = EmptyBag
    /\ last = [kind |-> "start"]

Init ==
    ServiceInit /\ PipeIdle /\ ContactsIdle /\ TextIdle /\ UtilsIdle
        /\ ParseIdle

Next ==
    \/ \E t \in Threads, d \in DateClasses, e \in BOOLEAN :
           \* a thread with no message has no date to classify
           (e => d = "unparseable") /\ Poll(t, d, e)
    \/ \E t \in Threads, e \in BOOLEAN : DirectCall(t, e)
    \/ \E c \in Running : Check(c)
    \/ \E c \in Running : Create(c)
    \/ \E c \in Running, k \in 0..Len(Steps), e \in Errors : Enrich(c, k, e)
    \/ \E c \in Running, n \in 0..MaxMsgs : \E fails \in SUBSET (1..n) :
           Return(c, n, fails)

Spec == Init /\ [][Next]_vars

\* The service with a store that may refuse the except block's commit.
NextFault ==
    \/ Next
    \/ \E c \in Running, k \in 1..Len(Steps), e \in Errors :
           HandlerCommitFails(c, k, e)

SpecFault == Init /\ [][NextFault]_vars

\* serve_multithreaded(me, fetch_count) has created the queues and started
\* the receiver and the workers; the sender runs in the calling thread.
InitPipe ==
    /\ ServiceInit
    /\ ContactsIdle
    /\ TextIdle
    /\ UtilsIdle
    /\ ParseIdle
    /\ WORKER_COUNT \in 1..MaxWorkers
    /\ nthreads \in 0..MaxFetch
    /\ in_q = <<>>
    /\ out_q = <<>>
    /\ rcv = [pc |-> "run", i |-> 1, k |-> 0]
    /\ wk = [w \in Workers |-> [pc |-> "get", item |-> None]]
    /\ snd = [pc |-> "run", done_signals |-> 0]
    /\ fate = [i \in 1..nthreads |-> "unfetched"]

NextPipe ==
    \/ ReceiverPut
    \/ ReceiverSignal
    \/ \E w \in Workers : WorkerGet(w)
    \/ \E w \in Workers : WorkerSignal(w)
    \/ \E w \in Workers, ok \in BOOLEAN : WorkerProcess(w, ok)
    \/ \E w \in Workers : WorkerPut(w)
    \/ SenderGet

SpecPipe == InitPipe /\ [][NextPipe]_vars

\* The receiver, each worker and the sender are threads of one process: a
\* thread that can run is eventually run.
SpecPipeFair ==
    /\ SpecPipe
    /\ WF_vars(Receiver)
    /\ \A w \in 1..MaxWorkers : WF_vars(w \in Workers /\ Worker(w))
    /\ WF_vars(SenderGet)

\* The pipeline with a fetch that may raise.
NextPipeFault == NextPipe \/ FetchRaises

SpecPipeFault == InitPipe /\ [][NextPipeFault]_vars

\* upsert_contact called again and again, each call after the one before it
\* has returned.
InitContacts ==
    ServiceInit /\ PipeIdle /\ ContactsIdle /\ TextIdle /\ UtilsIdle
        /\ ParseIdle

NextContacts ==
    \/ /\ ups = EmptyBag
       /\ \E name \in NameArgs, email \in EmailArgs, sig \in SigReplies,
             ans \in ImportanceReplies, aiOk \in BOOLEAN :
             UpsertCall(name, email, sig, ans, aiOk)
    \/ \E u \in UpsertRunning : UpsertSelect(u)
    \/ \E u \in UpsertRunning : UpsertCommit(u)

SpecContacts == InitContacts /\ [][NextContacts]_vars

\* upsert_contact called by several workers at once: a call may start while
\* another is between its select and its commit.
NextContactsPar ==
    \/ \E name \in NameArgs, email \in EmailArgs, sig \in SigReplies,
          ans \in ImportanceReplies, aiOk \in BOOLEAN :
          UpsertCall(name, email, sig, ans, aiOk)
    \/ \E u \in UpsertRunning : UpsertSelect(u)
    \/ \E u \in UpsertRunning : UpsertCommit(u)

SpecContactsPar == InitContacts /\ [][NextContactsPar]_vars

\* summarize is called once, with any list of messages.
InitSummarize ==
    /\ ServiceInit /\ PipeIdle /\ ContactsIdle /\ UtilsIdle /\ ParseIdle
    /\ \E messages \in MessageLists, rl \in ReplyLens :
          sin = [messages |-> Numbered(messages), rl |-> rl]
    /\ sout = <<>>
    /\ cin = [text |-> <<>>, reply |-> <<>>]
    /\ cout = <<>>
    /\ api = NoRequest

NextSummarize == SummarizeCall

SpecSummarize == InitSummarize /\ [][NextSummarize]_vars

\* classify is called once, with any text.
InitClassify ==
    /\ ServiceInit /\ PipeIdle /\ ContactsIdle /\ UtilsIdle /\ ParseIdle
    /\ sin = [messages |-> <<>>, rl |-> 0]
    /\ sout = <<>>
    /\ \E text \in Texts, reply \in ModelReplies :
          cin = [text |-> text, reply |-> reply]
    /\ cout = <<>>
    /\ api = NoRequest

NextClassify == ClassifyCall

SpecClassify == InitClassify /\ [][NextClassify]_vars

\* compute_response_times is called once, with any list of messages.
InitReplies ==
    /\ ServiceInit /\ PipeIdle /\ ContactsIdle /\ TextIdle /\ ParseIdle
    /\ \E messages \in MessageSeqs, self \in SelfEmails :
          rin = [messages |-> messages, self |-> self]
    /\ rout = <<>>
    /\ bin = <<>>
    /\ bout = <<>>

SpecReplies == InitReplies /\ [][ResponseTimesCall]_vars

\* extract_signature_block is called once, with any body.
InitSignature ==
    /\ ServiceInit /\ PipeIdle /\ ContactsIdle /\ TextIdle /\ ParseIdle
    /\ rin = [messages |-> <<>>, self |-> ""]
    /\ rout = <<>>
    /\ \E n \in 0..MaxLines : \E kinds \in [1..n -> LineKinds] :
          bin = [i \in 1..n |-> Line(kinds[i], i)]
    /\ bout = <<>>

SpecSignature == InitSignature /\ [][SignatureCall]_vars

\* parse_email is called once with any raw input, or a thread with messages
\* goes once through process_thread and once through the worker.
InitParse ==
    /\ ServiceInit /\ PipeIdle /\ ContactsIdle /\ TextIdle /\ UtilsIdle
    /\ \/ pin \in RawInputs /\ tin = <<>>
       \/ pin = <<>> /\ tin \in ThreadInputs
    /\ pout = <<>>
    /\ tout = <<>>
    /\ wout = <<>>

NextParse == ParseCall \/ ThreadCall \/ WorkerCall

SpecParse == InitParse /\ [][NextParse]_vars

\* One request is made, by any of the three places of summarizer.py that
\* make one, the remote answering each attempt in any way.
InitRetry ==
    /\ ServiceInit /\ PipeIdle /\ ContactsIdle /\ UtilsIdle /\ ParseIdle
    /\ sin = [messages |-> <<>>, rl |-> 0]
    /\ sout = <<>>
    /\ cin = [text |-> <<>>, reply |-> <<>>]
    /\ cout = <<>>
    /\ \E fn \in DOMAIN Retries :
       \E answers \in [1..(Len(Backoffs) + 1) ->
                            {"ok", "RateLimitError", "APIError"}] :
          api = [NoRequest EXCEPT !.fn = fn, !.answers = answers, !.pc = "try"]

SpecRetry == InitRetry /\ [][Attempt]_vars

\* ================================================================ claims
Row(t, r) == mail[t][r]
HasRow(t) == Len(mail[t]) > 0
InFlight(t) == {c \in Running : c.tid = t}

\* C1: in one run of main, whatever the provider offers and however often,
\* pool.submit(process_thread, raw) happens at most once per thread identifier.
C1_SubmittedAtMostOnce == \A t \in Threads : submitted[t] <= 1

\* The thread was offered again while its call was still enriching, and main
\* skipped it.
C1_Witness ==
    \E t \in Threads :
        /\ last.kind = "poll" /\ last.tid = t /\ last.verdict = "dup"
        /\ submitted[t] = 1
        /\ \E c \in InFlight(t) : c.pc = "enrich"

\* C2: the Mail table never holds two rows with one message_id, and a call
\* that met an identifier already stored (at its check or at its insert)
\* leaves exactly one row of it.
C2_OneRowPerThread ==
    /\ \A t \in Threads : Len(mail[t]) <= 1
    /\ (last.kind = "return" /\ last.outcome \in {"skipped", "lost"})
          => Len(mail[last.tid]) = 1

\* Two calls for one identifier both passed the existence check; the one whose
\* insert came second has returned.
C2_Witness ==
    /\ last.kind = "return"
    /\ last.outcome = "lost"
    /\ Len(mail[last.tid]) = 1

\* C3: a row is created 'pending', is never deleted, and its status only ever
\* changes from 'pending' to 'completed' or to 'failed'.
C3_StatusStep ==
    \A t \in Threads :
        /\ Len(mail'[t]) >= Len(mail[t])
        /\ \A r \in DOMAIN mail'[t] :
              IF r \in DOMAIN mail[t]
              THEN \/ Row(t, r).status = mail'[t][r].status
                   \/ /\ Row(t, r).status = "pending"
                      /\ mail'[t][r].status \in {"completed", "failed"}
              ELSE mail'[t][r].status = "pending"

C3_StatusOnce == [][C3_StatusStep]_vars

\* A row is failed and a later call for its identifier has come and gone.
C3_Witness ==
    /\ last.kind = "return"
    /\ last.outcome = "skipped"
    /\ Row(last.tid, 1).status = "failed"

\* C4: when a step of the try block raises after the row was inserted, the row
\* is 'failed' with failure_reason the description of the exception raised,
\* while the call is in its finally block and after it has returned.
RowFailedWith(t, r, e) ==
    /\ r \in DOMAIN mail[t]
    /\ Row(t, r).status = "failed"
    /\ Row(t, r).failure_reason = e

C4_FailedWithReason ==
    /\ \A c \in Running :
          c.outcome = "failed" => c.raised \in Errors /\ RowFailedWith(c.tid, c.rec, c.raised)
    /\ (last.kind = "return" /\ last.outcome = "failed")
          => last.raised \in Errors /\ RowFailedWith(last.tid, last.rec, last.raised)

\* The step that raised came after the commit of the summary.
C4_Witness ==
    /\ last.kind = "return"
    /\ last.outcome = "failed"
    /\ Row(last.tid, last.rec).summary
    /\ Row(last.tid, last.rec).failure_reason = last.raised

\* C6: once the row of a thread is 'failed', no step changes the row, main
\* does not submit the thread a second time, and no call for it is enriching.
RowFailed(t) == HasRow(t) /\ Row(t, 1).status = "failed"

C6_FailedStep ==
    \A t \in Threads :
        RowFailed(t) =>
            /\ mail'[t] = mail[t]
            /\ submitted[t] >= 1 => submitted'[t] = submitted[t]
            /\ \A c \in BagToSet(calls') : c.tid = t => c.pc # "enrich"

C6_FailedNotRetried == [][C6_FailedStep]_vars

\* The thread failed in a call main submitted, main was offered it again, and
\* a call made from outside has reached its finally block without enriching.
C6_Witness ==
    \E t \in Threads :
        /\ RowFailed(t)
        /\ submitted[t] = 1
        /\ last.kind = "poll" /\ last.tid = t /\ last.verdict = "dup"
        /\ \E c \in InFlight(t) : c.pc = "finally" /\ c.outcome = "skipped"

\* C7: a call that returns has attempted mark_as_read on each message of its
\* thread, however its try part ended, and a call is in its finally block only
\* once that is decided: its own row is 'completed' or 'failed', or it made
\* no row (the identifier was already stored, or the thread was empty).
Decided(t, r, outcome) ==
    /\ outcome \in {"skipped", "norecord", "lost", "completed", "failed"}
    /\ outcome \in {"completed", "failed"} <=> r # 0
    /\ r # 0 => Row(t, r).status = outcome
    /\ outcome \in {"skipped", "lost"} => HasRow(t)

C8_ReturnStep ==
    (BagCardinality(calls') < BagCardinality(calls) /\ last'.ackErrs > 0) =>
        /\ last'.attempted = last'.n
        /\ mail' = mail
        /\ last'.escaped <=> last'.outcome = "lost"

C8_AckFailureSwallowed == [][C8_ReturnStep]_vars

\* mark_as_read raised for the first of two messages of a completed thread.
C8_Witness ==
    /\ last.kind = "return"
    /\ last.outcome = "completed"
    /\ last.n = 2
    /\ last.ackErrs >= 1
    /\ last.attempted = 2
    /\ ~last.escaped

\* C5: a worker leaves its loop only by taking a sentinel, which it forwards:
\* an exception in the try block does not end it; and when the sender has
\* stopped, every thread the fetch yielded was taken and either raised or was
\* rendered.
Exited == {w \in Workers : wk[w].pc = "exit"}
Forwarded == Cardinality({j \in DOMAIN out_q : out_q[j] = None}) + snd.done_signals

C5_WorkersSurviveErrors ==
    /\ Cardinality(Exited) = Forwarded
    /\ \A w \in Workers : wk[w].pc = "get" => wk[w].item = None
    /\ snd.pc = "done" =>
          \A i \in 1..nthreads : fate[i] \in {"raised", "rendered"}

\* The only worker raised on the first thread and went on to the second.
C5_Witness ==
    /\ WORKER_COUNT = 1
    /\ nthreads >= 2
    /\ fate[1] = "raised"
    /\ fate[2] = "rendered"
    /\ snd.pc = "done"

\* C9: the sender has stopped exactly when it has counted WORKER_COUNT
\* sentinels, and then every worker has left its loop (a worker leaves by
\* forwarding the sentinel and breaking, which is one step here: it takes
\* no further item once the sentinel is forwarded).
C9_SenderStopsAtN ==
    /\ snd.done_signals <= WORKER_COUNT
    /\ snd.pc = "done" <=> snd.done_signals = WORKER_COUNT
    /\ snd.pc = "done" => \A w \in Workers : wk[w].pc = "exit"

\* Several workers, and the sender has stopped.
C9_Witness ==
    /\ WORKER_COUNT >= 2
    /\ snd.pc = "done"
    /\ \E i \in 1..nthreads : fate[i] = "rendered"

\* C10: with every thread scheduled fairly, the receiver finishes, every
\* worker leaves its loop and the sender stops, and until then some thread
\* can take a step.
PipeDone ==
    /\ rcv.pc = "done"
    /\ \A w \in Workers : wk[w].pc = "exit"
    /\ snd.pc = "done"

C10_PipelineTerminates == <>PipeDone /\ [](PipeDone \/ ENABLED NextPipe)

\* More threads than a queue holds went through one worker.
C10_Witness ==
    /\ PipeDone
    /\ WORKER_COUNT = 1
    /\ nthreads > QueueSize

\* C11: every thread a worker has dequeued and finished with has had exactly
\* one outcome put on the result queue (a result, or a failure with its
\* reason), which the sender then renders.
Outcomes(i) ==
    Cardinality({j \in DOMAIN out_q : out_q[j] = i})
        + (IF fate[i] = "rendered" THEN 1 ELSE 0)
Dequeued(i) == fate[i] \notin {"unfetched", "queued"}
Held(i) == \E w \in Workers : wk[w].item = i

C11_OneOutcomePerThread ==
    \A i \in 1..nthreads : (Dequeued(i) /\ ~Held(i)) => Outcomes(i) = 1

\* C12: neither queue ever holds more than 2 x WORKER_COUNT items, and the
\* receiver loses no thread: the threads it has passed are exactly those that
\* were enqueued, a thread waiting in the work queue is there once, and the
\* receiver turns to the sentinels only when every thread was enqueued.
Copies(q, i) == Cardinality({j \in DOMAIN q : q[j] = i})

C12_BoundedNoDrop ==
    /\ Len(in_q) <= 2 * WORKER_COUNT
    /\ Len(out_q) <= 2 * WORKER_COUNT
    /\ \A i \in 1..nthreads :
          /\ i < rcv.i <=> fate[i] # "unfetched"
          /\ Copies(in_q, i) = (IF fate[i] = "queued" THEN 1 ELSE 0)
    /\ (rcv.k > 0 \/ rcv.pc = "done") => rcv.i = nthreads + 1

\* The work queue is full of threads and the fetch has one more to hand over:
\* the receiver waits.
C12_Witness ==
    /\ Len(in_q) = 2 * WORKER_COUNT
    /\ \A j \in DOMAIN in_q : in_q[j] # None
    /\ rcv.i <= nthreads
    /\ fate[rcv.i] = "unfetched"
    /\ ~ENABLED ReceiverPut

\* C13: main submits a thread only when the date of its last message parses
\* and is strictly after the cutoff; a thread it met with no parseable date,
\* or a date at or before the cutoff, is not submitted then or later, and gets
\* no row from this run.
Rejected(t) == t \in seen_threads /\ submitted[t] = 0

C13_PollStep ==
    /\ (last'.kind = "poll" /\ last'.verdict = "submitted")
          => last'.date = "after"
    /\ (last'.kind = "poll" /\ last'.date \in {"none", "unparseable", "before", "at"})
          => last'.verdict # "submitted"
    /\ \A t \in Threads :
          Rejected(t) => /\ Rejected(t)'
                         /\ direct' = 0 => mail'[t] = <<>>

C13_SubmitsOnlyAfterCutoff == [][C13_PollStep]_vars

\* C14: the ledger holds only identifiers main has submitted, and a thread
\* offered with a last message after the cutoff and not submitted so far is
\* submitted by that poll: a poll that reads such a date submits, and a poll
\* passes a thread over without reading its date only if the thread was
\* submitted before.
C14_AdmissionComplete ==
    /\ \A t \in seen_threads : submitted[t] >= 1
    /\ (last.kind = "poll" /\ last.date = "after") => last.verdict = "submitted"
    /\ (last.kind = "poll" /\ last.verdict = "dup") => submitted[last.tid] >= 1

\* C15: the contacts table never holds two rows with one email, and once an
\* upsert of an email has reached the table, the row of that email is exactly
\* the details of the most recent such upsert: name, company, address, phone,
\* job_title and importance.
C15_OneContactLatestValues ==
    \A e \in StoredEmails :
        /\ Len(contacts[e]) <= 1
        /\ IF ulast[e] = <<>> THEN contacts[e] = <<>>
           ELSE contacts[e] = <<ulast[e][1].details>>

\* A second upsert of an address has replaced values the first one stored.
C15_Witness ==
    \E e \in StoredEmails :
        /\ ulast[e] # <<>>
        /\ ulast[e][1].overwrote
        /\ contacts[e] = <<ulast[e][1].details>>
        /\ ups = EmptyBag

\* C16: a call that finds a row of its identifier at the existence check goes
\* straight to its finally block, and until it has returned it writes nothing:
\* it inserts no row, runs none of the enrichment steps (the audit rows, the
\* extracted fields, summarize, classify and the contact upsert are all among
\* them), leaves every row's status, summary, category and failure_reason as
\* they were, and returns without an exception.
Stepped(c) == CopiesIn(c, calls') < CopiesIn(c, calls)
Skipping(c) == [c EXCEPT !.pc = "finally", !.outcome = "skipped"]

C16_Step ==
    \A c \in Running :
        Stepped(c) =>
            /\ (c.pc = "check" /\ RecordExists(c.tid)) =>
                  /\ mail' = mail
                  /\ calls' = Replace(c, Skipping(c))
            /\ c.outcome = "skipped" =>
                  /\ c.pc = "finally" /\ c.rec = 0
                  /\ mail' = mail
                  /\ calls' = Remove(c)
                  /\ last'.kind = "return" /\ last'.outcome = "skipped"
                  /\ ~last'.escaped

C16_ExistingIsNoOp == [][C16_Step]_vars

\* A call for a thread whose row is completed, with its summary and category,
\* has returned and the row is as it was.
C16_Witness ==
    /\ last.kind = "return"
    /\ last.outcome = "skipped"
    /\ ~last.escaped
    /\ Row(last.tid, 1) = [status |-> "completed", failure_reason |-> "none",
                           summary |-> TRUE, category |-> TRUE]

\* C17: summarize of an empty list returns the empty string and sends no
\* request to the remote model.
C17_EmptyThread ==
    (sout # <<>> /\ sin.messages = <<>>) =>
        /\ sout[1].raised = "none"
        /\ sout[1].result = EmptyText
        /\ sout[1].requests = <<>>

\* summarize([]) has returned.
C17_Witness ==
    /\ sin.messages = <<>>
    /\ sout # <<>>
    /\ sout[1].frames = <<Frame(0, 0, 0, "empty")>>

\* What summarize is given, and the chunks its bodies split into.
Given == sin.messages
Chunks == ChunkMessages(Processed(Bodies(Given), sin.rl))
\* The requests other than the shortening of single long bodies.
IsSummary(q) == q.fn # "summarize_message"
SummaryRequests == SelectSeq(sout[1].requests, IsSummary)
ChunkSummaries ==
    [k \in 1..Len(Chunks) |-> Reply("_call_api", Chunks[k], sin.rl)]

\* C18: when the bodies split into k >= 2 chunks, summarize sends one request
\* per chunk, in chunk order, then one unification request over the k replies
\* in that order, and returns the reply to it; when they fit in one chunk it
\* sends one request with one line per message that has a body and returns
\* the reply to it.
C18_ChunkThenUnify ==
    sout # <<>> =>
        /\ Len(Chunks) >= 2 =>
              /\ sout[1].raised = "none"
              /\ SummaryRequests =
                    [k \in 1..Len(Chunks) |-> Request("_call_api", Chunks[k])]
                        \o <<Request("unify", ChunkSummaries)>>
              /\ sout[1].result = Reply("unify", ChunkSummaries, sin.rl)
        /\ Len(Chunks) = 1 =>
              /\ sout[1].raised = "none"
              /\ SummaryRequests = <<Request("_call_api", Chunks[1])>>
              /\ Len(Chunks[1]) = Len(Bodies(Given))
              /\ sout[1].result = Reply("_call_api", Chunks[1], sin.rl)

\* C19: summarize ends for every input, every activation below the top one is
\* given fewer messages than its caller and takes the single-chunk way, and no
\* activation is more than one level below the top one.
C19_RecursionBounded ==
    sout # <<>> =>
        \A j \in DOMAIN sout[1].frames :
            LET f == sout[1].frames[j]
            IN  /\ f.depth <= 1
                /\ f.depth >= 1 => f.n < f.parent /\ f.path = "single"

\* C20: classify of a text that is empty or holds nothing but whitespace
\* returns 'Others' and sends no request to the remote model.
OnlyWhitespace(text) == \A i \in DOMAIN text : text[i] \in Whitespace

C20_BlankIsOthers ==
    (cout # <<>> /\ OnlyWhitespace(cin.text)) =>
        /\ cout[1].result = <<"Others">>
        /\ cout[1].requests = 0

\* classify of a text of two or more whitespace characters has returned, the
\* remote model having another answer ready.
C20_Witness ==
    /\ cout # <<>>
    /\ Len(cin.text) >= 2
    /\ OnlyWhitespace(cin.text)
    /\ cin.reply = <<"Invoice/Tax">>
    /\ cout[1] = [result |-> <<"Others">>, requests |-> 0]

\* C21: for every text and every answer of the remote model, classify
\* returns exactly one member of CATEGORIES; an answer outside the set is
\* mapped to 'Others'.
C21_ClosedSet ==
    cout # <<>> => cout[1].result \in {<<c>> : c \in CATEGORIES}

\* ---- compute_response_times
Replied == rout # <<>>
Records == rout[1]
\* The messages whose date parses: the others have no place in the order.
Dated == SelectSeq(rin.messages, LAMBDA m : m.date # NoDate)
FromOperator(m) == Contains(m.sender, rin.self)
Chronological ==
    /\ Dated = rin.messages
    /\ \A i, j \in DOMAIN Dated : i < j => Dated[i].date <= Dated[j].date
\* The operator's messages that come right after a message of someone else.
ReplyPositions ==
    {i \in DOMAIN Dated :
        i > 1 /\ FromOperator(Dated[i]) /\ ~FromOperator(Dated[i - 1])}
NthReply(k) ==
    CHOOSE i \in ReplyPositions :
        Cardinality({j \in ReplyPositions : j < i}) = k - 1
\* The first message of the run of other people's messages that ends at p - 1.
RunStart(p) ==
    CHOOSE s \in 1..(p - 1) :
        /\ \A j \in s..(p - 1) : ~FromOperator(Dated[j])
        /\ s > 1 => FromOperator(Dated[s - 1])

\* C22: with an operator address configured, compute_response_times over a
\* chronological list gives exactly one record for each operator message
\* that comes right after a message of someone else and none for any other
\* message, numbered 1, 2, 3, ... in order.
C22_OneRecordPerReply ==
    (Replied /\ rin.self # "" /\ Chronological) =>
        /\ Len(Records) = Cardinality(ReplyPositions)
        /\ \A k \in DOMAIN Records :
              /\ Records[k].reply_number = k
              /\ Records[k].reply_at = Dated[NthReply(k)].date

\* A chronological thread of four messages: someone else, the operator twice
\* in a row, someone else, the operator: two records, numbered 1 and 2.
C22_Witness ==
    /\ Replied /\ rin.self # "" /\ Chronological
    /\ Len(rin.messages) = 4
    /\ ~FromOperator(Dated[1]) /\ FromOperator(Dated[2])
    /\ ~FromOperator(Dated[3]) /\ FromOperator(Dated[4])
    /\ Len(Records) = 2
    /\ Records[2].reply_number = 2

\* C23 as stated: when an operator message follows a run of two or more
\* messages of other people, the record names the first message of the run:
\* its sender as the counterpart and its date as the original timestamp
\* (reply_at less delta_seconds).
C23_StartOfRun ==
    Replied =>
        \A k \in DOMAIN Records :
            LET p == NthReply(k)
                s == RunStart(p)
            IN  p - s >= 2 =>
                    /\ Records[k].from = Dated[s].sender
                    /\ Records[k].reply_at - Records[k].delta_seconds
                           = Dated[s].date

\* C23, amended: when an operator message follows a run of two or more
\* messages of other people, the one record produced names the last message
\* of the run: its sender is the counterpart and the duration is measured
\* from its date.
C23_EndOfRun ==
    Replied =>
        \A k \in DOMAIN Records :
            LET p == NthReply(k)
                s == RunStart(p)
            IN  p - s >= 2 =>
                    /\ Records[k].from = Dated[p - 1].sender
                    /\ Records[k].reply_at - Records[k].delta_seconds
                           = Dated[p - 1].date
                    /\ \A j \in DOMAIN Records :
                          j # k => NthReply(j) \notin s..p

\* Two people write one after the other at different times, then the
\* operator answers: the record names the second of them.
C23_Witness ==
    /\ Replied
    /\ Len(Dated) = 3
    /\ ~FromOperator(Dated[1]) /\ ~FromOperator(Dated[2])
    /\ FromOperator(Dated[3])
    /\ Dated[1].sender # Dated[2].sender
    /\ Dated[1].date < Dated[2].date
    /\ Len(Records) = 1
    /\ Records[1].from = Dated[2].sender

\* C24: the duration of every record is the date of the operator's message
\* less the date of the most recent message of someone else before it, and
\* the record's counterpart is the sender of that message.
C24_FromMostRecent ==
    Replied =>
        \A k \in DOMAIN Records :
            LET p == NthReply(k)
            IN  /\ Records[k].delta_seconds
                       = Dated[p].date - Dated[p - 1].date
                /\ Records[k].from = Dated[p - 1].sender

\* The operator answers a message one instant after it was sent.
C24_Witness ==
    /\ Replied
    /\ Len(Records) >= 1
    /\ Records[1].delta_seconds = 1
    /\ Dated[NthReply(1)].date = 1
    /\ Dated[NthReply(1) - 1].date = 0

\* ---- _chunk_messages
\* What summarize passes to _chunk_messages, and a body as a chunk holds it.
Chunked == Processed(Bodies(Given), sin.rl)
Shortened(b) == IF b.len > MAX_CHUNK_CHARS THEN Cut(b) ELSE b
\* The combined size of a chunk: len(body) + 1 for each of its bodies.
RECURSIVE ChunkSize(_)
ChunkSize(chunk) ==
    IF chunk = <<>> THEN 0 ELSE Head(chunk).len + 1 + ChunkSize(Tail(chunk))

\* C30: every chunk _chunk_messages returns has a combined size of at most
\* MAX_CHUNK_CHARS, whatever the lengths of the bodies; no chunk is empty
\* and the bodies keep their order.
C30_ChunksWithinLimit ==
    sout # <<>> =>
        /\ \A k \in DOMAIN Chunks :
              Chunks[k] # <<>> /\ ChunkSize(Chunks[k]) <= MAX_CHUNK_CHARS
        /\ Flatten(Chunks) = [i \in DOMAIN Chunked |-> Shortened(Chunked[i])]

\* ---- extract_signature_block
Delimiter(ln) == ln.kind \in {"dash", "closing", "mobile"}
HasDelimiter == \E i \in DOMAIN bin : Delimiter(bin[i])
NonBlankLines == SelectSeq(bin, LAMBDA ln : ln.kind # "blank")
\* The lines after line m, without the blank lines at either end.
Following(m) ==
    LET rest == SubSeq(bin, m + 1, Len(bin))
        full == {i \in DOMAIN rest : rest[i].kind # "blank"}
    IN  IF full = {} THEN <<>>
        ELSE SubSeq(rest, CHOOSE i \in full : \A j \in full : i <= j,
                          CHOOSE i \in full : \A j \in full : i >= j)
LastFive ==
    IF Len(NonBlankLines) <= 5 THEN NonBlankLines
    ELSE SubSeq(NonBlankLines, Len(NonBlankLines) - 4, Len(NonBlankLines))

C28_OneEntryPerMessage ==
    pout # <<>> =>
        /\ Len(pout[1]) = Len(pin)
        /\ \A i \in DOMAIN pin :
              /\ pout[1][i].sender = pin[i].sender
              /\ pout[1][i].date = (IF pin[i].dated THEN i ELSE 0)
              /\ pin[i].ctype # "application/pdf" => pout[1][i].body = <<i>>

\* ---- process_thread and the worker
\* A message is usable when it has a body form; one without is invalid, for
\* the reason "no content".
Usable(m) == m.content = "text"
Invalid == SelectSeq(tin, LAMBDA m : ~Usable(m))
Valid == SelectSeq(tin, Usable)

\* C25: a new thread of usable messages, none of them the operator's, every
\* capability succeeding: the pipeline produces no ReplyRecord, calls the
\* summarizer with one line for each valid message and ends with the
\* ThreadRecord 'completed'; the worker hands on a result.
C25_UsableThreadCompletes ==
    (\A i \in DOMAIN tin : Usable(tin[i]) /\ ~tin[i].operator) =>
        /\ tout # <<>> =>
              /\ tout[1].status = "completed"
              /\ tout[1].summarized # <<>>
              /\ Len(tout[1].summarized[1]) = Len(Valid)
        /\ wout # <<>> =>
              /\ wout[1].result # <<>>
              /\ wout[1].summarized # <<>>
              /\ Len(wout[1].summarized[1]) = Len(Valid)

\* C29: process_thread appends exactly one audit row, with its reason, for
\* each parsed message that is invalid and none for a valid one; an invalid
\* message is not in what the summarizer, the classifier and the reply-time
\* computation are given.
C29_InvalidAudited ==
    tout # <<>> =>
        /\ Len(tout[1].skipped) = Len(Invalid)
        /\ \A k \in DOMAIN tout[1].skipped : tout[1].skipped[k] = "no content"
        /\ tout[1].summarized # <<>> =>
              Len(tout[1].summarized[1]) = Len(Valid)

\* ---- the retry loop
\* C26: a request that keeps failing with RateLimitError is attempted at
\* most four times, with waits of 1, 2 and 4 between the attempts; the
\* answer of the first attempt that succeeds is returned, and the error
\* leaves the function only after the fourth attempt has failed.
C26_BoundedRetry ==
    api.pc \in {"returned", "raised"} =>
        LET n == api.attempts
        IN  /\ n <= 4
            /\ api.waits = SubSeq(<<1, 2, 4>>, 1, n - 1)
            /\ \A j \in 1..(n - 1) : api.answers[j] = "RateLimitError"
            /\ api.pc = "returned" <=> api.answers[n] = "ok"
            /\ (api.pc = "raised" /\ api.error = "RateLimitError") => n = 4

\* ---- the unification request
\* C38: summarize never sends a unification request over fewer than two
\* partial summaries; for a list of messages whose bodies are all empty it
\* sends none.
C38_UnifyOverTwoOrMore ==
    sout # <<>> =>
        \A k \in DOMAIN sout[1].requests :
            sout[1].requests[k].fn = "unify" =>
                Len(sout[1].requests[k].input) >= 2

\* ---- the sentinels
SentinelsIn(q) == Cardinality({j \in DOMAIN q : q[j] = None})
\* The workers that have taken a sentinel off the work queue.
Signalled == {w \in Workers : wk[w].pc \in {"signal", "exit"}}

\* C33: the receiver puts exactly WORKER_COUNT sentinels on the work queue,
\* and only after every fetched thread; each worker takes one sentinel,
\* forwards one to the result queue and stops; when the sender has stopped
\* the work queue is empty and every worker has left its loop.
C33_OneSentinelPerWorker ==
    /\ rcv.k <= WORKER_COUNT
    /\ rcv.pc = "done" => rcv.k = WORKER_COUNT
    /\ rcv.k > 0 => rcv.i = nthreads + 1
    /\ \A j, k \in DOMAIN in_q : (j < k /\ in_q[j] = None) => in_q[k] = None
    /\ rcv.k = SentinelsIn(in_q) + Cardinality(Signalled)
    /\ Cardinality(Exited) = SentinelsIn(out_q) + snd.done_signals
    /\ snd.pc = "done" =>
          /\ in_q = <<>>
          /\ rcv.k = WORKER_COUNT
          /\ \A w \in Workers : wk[w].pc = "exit"

\* Two workers or more and two threads or more: the sender has stopped, the
\* receiver has put its last sentinel and the work queue is empty.
C33_Witness ==
    /\ WORKER_COUNT >= 2
    /\ nthreads >= 2
    /\ snd.pc = "done"
    /\ rcv.pc = "done"
    /\ rcv.k = WORKER_COUNT
    /\ in_q = <<>>

\* C34: no result is lost at shutdown: when the sender has stopped, every
\* result a worker has put on the result queue has been taken off it and
\* rendered, and no worker still holds one; on the result queue no result of
\* a worker comes after that worker's sentinel, there being as many
\* sentinels on it or counted as workers that have left.
C34_NoResultLost ==
    /\ snd.pc = "done" =>
          /\ out_q = <<>>
          /\ \A i \in 1..nthreads : fate[i] # "result"
          /\ \A w \in Workers : wk[w].pc # "put"
    /\ SentinelsIn(out_q) + snd.done_signals = WORKER_COUNT =>
          \A w \in Workers : wk[w].pc = "exit"

\* Two workers, three threads, all rendered: the sender has stopped.
C34_Witness ==
    /\ WORKER_COUNT = 2
    /\ nthreads = 3
    /\ \A i \in 1..nthreads : fate[i] = "rendered"
    /\ snd.pc = "done"

\* C35: a thread put on the work queue is in one place at a time: on the
\* work queue once, with one worker, on the result queue once, or done with;
\* when the sender has stopped, the results it rendered and the threads
\* whose enrichment raised are together the threads the fetch yielded.
Holders(i) == {w \in Workers : wk[w].item = i}
Rendered == {i \in 1..nthreads : fate[i] = "rendered"}
Raised == {i \in 1..nthreads : fate[i] = "raised"}

C35_EachThreadOnce ==
    /\ \A i \in 1..nthreads :
          /\ Copies(in_q, i) + Cardinality(Holders(i)) + Copies(out_q, i)
                 = (IF fate[i] \in {"queued", "taken", "result"} THEN 1 ELSE 0)
          /\ fate[i] = "queued" <=> Copies(in_q, i) = 1
          /\ fate[i] = "result" <=> Copies(out_q, i) = 1
    /\ snd.pc = "done" =>
          Cardinality(Rendered) + Cardinality(Raised) = nthreads

\* Three threads, the sender has stopped: some were rendered, some raised.
C35_Witness ==
    /\ nthreads = 3
    /\ snd.pc = "done"
    /\ Rendered # {}
    /\ Raised # {}

\* ---- a fetch that raises
\* C36: the pipeline shuts down in every execution, also when the fetch
\* raises before or between threads: as long as the sender has not returned
\* some thread of the pipeline can take a step, so that the workers get
\* their sentinels and the sender is not left waiting on the result queue.
C36_NeverStuck == snd.pc = "done" \/ ENABLED NextPipeFault

\* ---- two calls for one thread
\* C31: a call that passed the existence check while another call for the
\* same thread had not yet committed its insert, and then lost the insert,
\* ends like a call that found the record: it returns with no row of its
\* own, as skipped, and no exception leaves it.
C31_LoserIsSkipped ==
    (last.kind = "return" /\ last.rec = 0 /\ last.outcome # "norecord") =>
        (last.outcome = "skipped" /\ ~last.escaped)

\* ---- a commit that fails in the except block
\* C37: once a call has returned, the record it created is no longer
\* 'pending': it is 'completed' or 'failed', whichever step failed and also
\* when the write of the outcome itself failed.
C37_LeavesPending ==
    (last.kind = "return" /\ last.rec > 0) =>
        Row(last.tid, last.rec).status \in {"completed", "failed"}

\* ---- two upserts of one address at once
\* C32: when two upserts of the same address both read 'no existing row'
\* before either commits, the store holds one row for the address and
\* neither call ends with an error: no commit of an upsert raises.
C32_CollisionHarmless ==
    \A e \in StoredEmails :
        /\ Len(contacts[e]) <= 1
        /\ ulast[e] # <<>> => ~ulast[e][1].raised

====
